---- MODULE Spec2Model ----
(***************************************************************************)
(* The POST /api/extract-action-items handler of server.js as a state       *)
(* machine: validation of req.body.notes, the single completion call, the   *)
(* continuation after the await (content extraction, JSON.parse, id         *)
(* injection, res.json) and the catch block's error classification.         *)
(*                                                                          *)
(* JavaScript strings are TLA+ strings (sequences of characters): length,   *)
(* trim, includes, template formatting and JSON.parse are computed on the   *)
(* characters.  Every other JavaScript value is a tagged record.            *)
(***************************************************************************)
EXTENDS Integers, Sequences, FiniteSets, TLC

(***************************************************************************)
(* Bounds of the model.                                                     *)
(***************************************************************************)
NumRequests == 2     \* requests handled concurrently
MaxItems == 2        \* longest actionItems array the provider returns
MaxTicks == 2        \* how far the clock advances
Epoch == 98          \* Date.now() at start (so that 99 -> 100 is crossed)

Requests == 1..NumRequests

(***************************************************************************)
(* JavaScript values.                                                       *)
(***************************************************************************)
Undef == [t |-> "undefined"]
JNull == [t |-> "null"]
JBool(b) == [t |-> "bool", v |-> b]
JNum(n) == [t |-> "num", v |-> n]
JStr(s) == [t |-> "str", v |-> s]
JArr(q) == [t |-> "arr", v |-> q]
JObj(f) == [t |-> "obj", v |-> f]
NoProps == [k \in {} |-> Undef]

Nullish(x) == x.t \in {"undefined", "null"}

\* ToBoolean, as used by `!notes`, `!responseText` and `a && b`
Truthy(x) ==
    CASE x.t \in {"undefined", "null"} -> FALSE
      [] x.t = "bool" -> x.v
      [] x.t = "num" -> x.v # 0
      [] x.t = "str" -> x.v # ""
      [] OTHER -> TRUE

TypeOf(x) ==
    CASE x.t = "undefined" -> "undefined"
      [] x.t = "bool" -> "boolean"
      [] x.t = "num" -> "number"
      [] x.t = "str" -> "string"
      [] OTHER -> "object"

IsArray(x) == x.t = "arr"

(***************************************************************************)
(* Strings.                                                                 *)
(***************************************************************************)
\* F(x) with x evaluated once, before F uses it (call by value)
Bind(x, F(_)) == CHOOSE y \in {F(v) : v \in {x}} : TRUE

Ch(s, i) == IF i >= 1 /\ i <= Len(s) THEN SubSeq(s, i, i) ELSE ""

WhiteSpace == {" ", "\t", "\n", "\r"}

\* String.prototype.trim
TrimValue(s) ==
    LET n == Len(s)
        first == CHOOSE i \in 1..(n + 1) :
                    /\ (i <= n => Ch(s, i) \notin WhiteSpace)
                    /\ \A j \in 1..(i - 1) : Ch(s, j) \in WhiteSpace
        last == CHOOSE i \in 0..n :
                    /\ (i >= 1 => Ch(s, i) \notin WhiteSpace)
                    /\ \A j \in (i + 1)..n : Ch(s, j) \in WhiteSpace
    IN IF first > n THEN "" ELSE SubSeq(s, first, last)

Trim(str) == Bind(str, LAMBDA s : TrimValue(s))

\* String.prototype.includes
Includes(s, sub) ==
    \E i \in 1..(Len(s) - Len(sub) + 1) : SubSeq(s, i, i + Len(sub) - 1) = sub

Digits == "0123456789"
IsDigit(c) == c # "" /\ Includes(Digits, c)
DigitVal(c) == (CHOOSE i \in 1..10 : Ch(Digits, i) = c) - 1

\* decimal formatting of a non-negative integer, as `${n}` does
RECURSIVE NumToString(_)
NumToString(n) ==
    IF n < 10 THEN Ch(Digits, n + 1)
    ELSE NumToString(n \div 10) \o Ch(Digits, (n % 10) + 1)

RECURSIVE Repeat(_, _)
Repeat(s, n) ==
    IF n = 0 THEN ""
    ELSE IF n % 2 = 1 THEN s \o Repeat(s, n - 1)
    ELSE LET h == Repeat(s, n \div 2) IN h \o h

(***************************************************************************)
(* JSON.parse on the characters of the text: null, true, false, integers,  *)
(* strings without escapes, arrays and objects, with insignificant white    *)
(* space.  A parse result is [ok, val, next]; next is the position after    *)
(* the value.                                                               *)
(***************************************************************************)
Fail == [ok |-> FALSE, val |-> Undef, next |-> 0]
Parsed(v, n) == [ok |-> TRUE, val |-> v, next |-> n]

RECURSIVE SkipWs(_, _)
SkipWs(s, pos) ==
    Bind(pos, LAMBDA i : IF Ch(s, i) \in WhiteSpace THEN SkipWs(s, i + 1) ELSE i)

Literal(s, i, word, v) ==
    IF i + Len(word) - 1 <= Len(s) /\ SubSeq(s, i, i + Len(word) - 1) = word
    THEN Parsed(v, i + Len(word)) ELSE Fail

\* position of the closing quote of a string whose next character is at pos
RECURSIVE StringEnd(_, _)
StringEnd(s, pos) ==
    Bind(pos, LAMBDA i :
        CASE Ch(s, i) = "" -> 0
          [] Ch(s, i) = "\\" -> 0
          [] Ch(s, i) = "\"" -> i
          [] OTHER -> StringEnd(s, i + 1))

ParseString(s, i) ==
    Bind(StringEnd(s, i + 1), LAMBDA e :
        IF Ch(s, i) = "\"" /\ e # 0
        THEN Parsed(JStr(SubSeq(s, i + 1, e - 1)), e + 1) ELSE Fail)

RECURSIVE DigitsEnd(_, _)
DigitsEnd(s, pos) ==
    Bind(pos, LAMBDA i : IF IsDigit(Ch(s, i)) THEN DigitsEnd(s, i + 1) ELSE i)

RECURSIVE DigitsValue(_, _, _)
DigitsValue(s, i, e) ==
    IF e < i THEN 0 ELSE DigitsValue(s, i, e - 1) * 10 + DigitVal(Ch(s, e))

ParseNumber(s, i) ==
    LET neg == Ch(s, i) = "-"
        b == IF neg THEN i + 1 ELSE i
    IN Bind(DigitsEnd(s, b), LAMBDA e :
        IF e = b \/ (Ch(s, b) = "0" /\ e > b + 1) \/ Ch(s, e) \in {".", "e", "E"}
        THEN Fail
        ELSE Parsed(JNum(IF neg THEN 0 - DigitsValue(s, b, e - 1)
                                ELSE DigitsValue(s, b, e - 1)), e))

RECURSIVE ParseValue(_, _)
RECURSIVE ParseElements(_, _, _)
RECURSIVE ParseMembers(_, _, _)

\* the elements of an array after "[" or ",": acc holds those read so far
ParseElements(s, i, acc) ==
    Bind(ParseValue(s, SkipWs(s, i)), LAMBDA r :
        Bind(SkipWs(s, r.next), LAMBDA j :
            IF ~r.ok THEN Fail
            ELSE IF Ch(s, j) = "," THEN ParseElements(s, j + 1, Append(acc, r.val))
            ELSE IF Ch(s, j) = "]" THEN Parsed(JArr(Append(acc, r.val)), j + 1)
            ELSE Fail))

\* the members of an object after "{" or ",": a repeated key keeps the last value
ParseMembers(s, i, acc) ==
    Bind(ParseString(s, SkipWs(s, i)), LAMBDA k :
        Bind(SkipWs(s, k.next), LAMBDA c :
            IF ~k.ok \/ Ch(s, c) # ":" THEN Fail
            ELSE Bind(ParseValue(s, SkipWs(s, c + 1)), LAMBDA r :
                     Bind(SkipWs(s, r.next), LAMBDA j :
                         IF ~r.ok THEN Fail
                         ELSE IF Ch(s, j) = ","
                         THEN ParseMembers(s, j + 1, (k.val.v :> r.val) @@ acc)
                         ELSE IF Ch(s, j) = "}"
                         THEN Parsed(JObj((k.val.v :> r.val) @@ acc), j + 1)
                         ELSE Fail))))

ParseValue(s, pos) ==
    Bind(pos, LAMBDA i :
        Bind(Ch(s, i), LAMBDA c :
            CASE c = "n" -> Literal(s, i, "null", JNull)
              [] c = "t" -> Literal(s, i, "true", JBool(TRUE))
              [] c = "f" -> Literal(s, i, "false", JBool(FALSE))
              [] c = "\"" -> ParseString(s, i)
              [] c = "-" \/ IsDigit(c) -> ParseNumber(s, i)
              [] c = "[" ->
                   IF Ch(s, SkipWs(s, i + 1)) = "]"
                   THEN Parsed(JArr(<<>>), SkipWs(s, i + 1) + 1)
                   ELSE ParseElements(s, i + 1, <<>>)
              [] c = "{" ->
                   IF Ch(s, SkipWs(s, i + 1)) = "}"
                   THEN Parsed(JObj(NoProps), SkipWs(s, i + 1) + 1)
                   ELSE ParseMembers(s, i + 1, NoProps)
              [] OTHER -> Fail))

\* JSON.parse(text): ok = FALSE stands for the SyntaxError it throws
JSONparse(text) ==
    Bind(text, LAMBDA s :
        Bind(ParseValue(s, SkipWs(s, 1)), LAMBDA r :
            IF r.ok /\ SkipWs(s, r.next) = Len(s) + 1 THEN r ELSE Fail))

(***************************************************************************)
(* Property access, optional chaining and object spread.                    *)
(***************************************************************************)
\* x.k for a value that is not null or undefined (those throw a TypeError)
GetProp(x, k) == IF x.t = "obj" /\ k \in DOMAIN x.v THEN x.v[k] ELSE Undef

\* x[i], zero-based
Index(x, i) == IF x.t = "arr" /\ i + 1 <= Len(x.v) THEN x.v[i + 1] ELSE Undef

\* the own enumerable properties `...x` copies
Spread(x) ==
    CASE x.t = "obj" -> x.v
      [] x.t = "arr" ->
           [k \in {NumToString(i - 1) : i \in 1..Len(x.v)} |->
               x.v[CHOOSE i \in 1..Len(x.v) : NumToString(i - 1) = k]]
      [] x.t = "str" ->
           [k \in {NumToString(i - 1) : i \in 1..Len(x.v)} |->
               JStr(Ch(x.v, CHOOSE i \in 1..Len(x.v) : NumToString(i - 1) = k))]
      [] OTHER -> NoProps

(***************************************************************************)
(* Responses.                                                               *)
(***************************************************************************)
MsgInvalid == "Invalid input. Please provide meeting notes as a string."
MsgTooShort == "Meeting notes too short. Please provide at least 10 characters."
MsgTooLong == "Meeting notes too long. Please limit to 50,000 characters."
MsgApiConfig == "API configuration error. Please contact support."
MsgRateLimit == "Too many requests. Please try again in a moment."
MsgGeneric == "Failed to process meeting notes. Please try again."

\* res.status(status).json(value); res.json(value) is status 200
Response(status, value) == [status |-> status, body |-> value]
ErrorResponse(status, msg) == Response(status, JObj("error" :> JStr(msg)))

(***************************************************************************)
(* Validation (the handler up to the await).                                *)
(***************************************************************************)
MinLength == 10
MaxLength == 50000

\* const { notes } = req.body
NotesOf(reqBody) == GetProp(reqBody, "notes")

\* faulty variant: the length limit is not checked
ValidationNoMax(notes) ==
    IF ~Truthy(notes) \/ TypeOf(notes) # "string"
    THEN <<ErrorResponse(400, MsgInvalid)>>
    ELSE IF Len(Trim(notes.v)) < MinLength
    THEN <<ErrorResponse(400, MsgTooShort)>>
    ELSE <<>>

\* faulty variant: the minimum is tested on the untrimmed length
ValidationUntrimmed(notes) ==
    IF ~Truthy(notes) \/ TypeOf(notes) # "string"
    THEN <<ErrorResponse(400, MsgInvalid)>>
    ELSE IF Len(notes.v) < MinLength
    THEN <<ErrorResponse(400, MsgTooShort)>>
    ELSE IF Len(notes.v) > MaxLength
    THEN <<ErrorResponse(400, MsgTooLong)>>
    ELSE <<>>

\* the response validation sends, as a sequence: <<>> when the notes pass
ValidationResponse(notes) ==
    IF ~Truthy(notes) \/ TypeOf(notes) # "string"
    THEN <<ErrorResponse(400, MsgInvalid)>>
    ELSE IF Len(Trim(notes.v)) < MinLength
    THEN <<ErrorResponse(400, MsgTooShort)>>
    ELSE IF Len(notes.v) > MaxLength
    THEN <<ErrorResponse(400, MsgTooLong)>>
    ELSE <<>>

(***************************************************************************)
(* The catch block: classification of the thrown error by its message.      *)
(***************************************************************************)
JsError(msg) == [message |-> msg]
Mentions(error, sub) == error.message.t = "str" /\ Includes(error.message.v, sub)

\* faulty variant: the two tests in the other order
CatchRateLimitFirst(error) ==
    IF Mentions(error, "rate limit") THEN ErrorResponse(429, MsgRateLimit)
    ELSE IF Mentions(error, "API key") THEN ErrorResponse(500, MsgApiConfig)
    ELSE ErrorResponse(500, MsgGeneric)

\* faulty variant: no rate-limit branch
CatchNoRateLimit(error) ==
    IF Mentions(error, "API key") THEN ErrorResponse(500, MsgApiConfig)
    ELSE ErrorResponse(500, MsgGeneric)

\* the catch block
Catch(error) ==
    IF Mentions(error, "API key") THEN ErrorResponse(500, MsgApiConfig)
    ELSE IF Mentions(error, "rate limit") THEN ErrorResponse(429, MsgRateLimit)
    ELSE ErrorResponse(500, MsgGeneric)

(***************************************************************************)
(* The continuation after the await.                                        *)
(***************************************************************************)
Threw(error) == [thrown |-> TRUE, error |-> error, val |-> Undef]
Returned(v) == [thrown |-> FALSE, error |-> JsError(Undef), val |-> v]

\* completion.choices[0]?.message?.content
ResponseText(completion) ==
    LET choices == GetProp(completion, "choices")
        first == Index(choices, 0)
        message == GetProp(first, "message")
    IN IF Nullish(choices)
       THEN Threw(JsError(JStr("Cannot read properties of undefined (reading '0')")))
       ELSE IF Nullish(first) \/ Nullish(message) THEN Returned(Undef)
       ELSE Returned(GetProp(message, "content"))

\* the try block from the await to JSON.parse: the parsed response, or what is thrown
ParsedResponse(settled) ==
    IF settled.state = "rejected" THEN Threw(settled.reason)
    ELSE Bind(ResponseText(settled.value), LAMBDA text :
            IF text.thrown THEN text
            ELSE IF ~Truthy(text.val) THEN Threw(JsError(JStr("No response from AI")))
            ELSE Bind(JSONparse(text.val.v), LAMBDA p :
                    IF p.ok THEN Returned(p.val)
                    ELSE Threw(JsError(JStr("Invalid response format from AI")))))

\* `item-${Date.now()}-${index}`
ItemId(now, index) == "item-" \o NumToString(now) \o "-" \o NumToString(index)

\* ({ id: ..., ...item }): a property of the item named id replaces the injected one
WithId(item, now, index) == JObj(Spread(item) @@ ("id" :> JStr(ItemId(now, index))))

\* parsedResponse.actionItems && Array.isArray(parsedResponse.actionItems)
HasItemArray(parsed) ==
    Truthy(GetProp(parsed, "actionItems")) /\ IsArray(GetProp(parsed, "actionItems"))

\* the number of Date.now() calls the continuation makes
NowCalls(settled) ==
    Bind(ParsedResponse(settled), LAMBDA p :
        IF ~p.thrown /\ ~Nullish(p.val) /\ HasItemArray(p.val)
        THEN Len(GetProp(p.val, "actionItems").v) ELSE 0)

\* the if statement that adds the ids; ts[i] is what Date.now() returns for item i
AddIds(parsed, ts) ==
    IF HasItemArray(parsed)
    THEN JObj([parsed.v EXCEPT !["actionItems"] =
                 JArr([i \in 1..Len(@.v) |-> WithId(@.v[i], ts[i], i - 1)])])
    ELSE parsed

\* faulty variant: an empty actionItems array is synthesized when there is none
ContinuationSynthesize(settled, ts) ==
    Bind(ParsedResponse(settled), LAMBDA p :
        IF p.thrown THEN <<Catch(p.error)>>
        ELSE IF Nullish(p.val)
        THEN <<Catch(JsError(JStr("Cannot read properties of null (reading 'actionItems')")))>>
        ELSE IF HasItemArray(p.val) THEN <<Response(200, AddIds(p.val, ts))>>
        ELSE <<Response(200, JObj(("actionItems" :> JArr(<<>>)) @@ Spread(p.val)))>>)

\* faulty variant: unclassified errors are rethrown and a null result is not answered
ContinuationRethrow(settled, ts) ==
    Bind(ParsedResponse(settled), LAMBDA p :
        IF p.thrown
        THEN (IF Mentions(p.error, "API key") \/ Mentions(p.error, "rate limit")
              THEN <<Catch(p.error)>> ELSE <<>>)
        ELSE IF Nullish(p.val) THEN <<>>
        ELSE <<Response(200, AddIds(p.val, ts))>>)

\* the whole continuation: the responses it sends, in order
Continuation(settled, ts) ==
    Bind(ParsedResponse(settled), LAMBDA p :
        IF p.thrown THEN <<Catch(p.error)>>
        ELSE IF Nullish(p.val)
        THEN <<Catch(JsError(JStr("Cannot read properties of null (reading 'actionItems')")))>>
        ELSE <<Response(200, AddIds(p.val, ts))>>)

(***************************************************************************)
(* What the environment supplies: request bodies, completions, failures.    *)
(***************************************************************************)
Body(notes) == JObj("notes" :> notes)

LongestNotes == Repeat("a", MaxLength)

AllBodies ==
    {JObj(NoProps), Body(JNull), Body(JNum(0)), Body(JNum(42)), Body(JBool(TRUE)),
     Body(JObj(NoProps)), Body(JArr(<<JStr("Alice will send the report")>>))}
    \cup {Body(JStr(s)) : s \in
            {"", " ", "          ", "\n\t  \r\n", "short", "123456789", "1234567890",
             "  123456789  ", " 1234567890 ", "\t123456789\n     ",
             "Alice will send the report by Friday.",
             LongestNotes, LongestNotes \o "a", LongestNotes \o " ",
             Repeat(" ", MaxLength) \o "a", Repeat(" ", MaxLength) \o "123456789",
             Repeat(" ", MaxLength - MinLength) \o "1234567890",
             Repeat(" ", MaxLength - MinLength + 1) \o "1234567890",
             "123456789" \o Repeat(" ", MaxLength), Repeat(" ", MaxLength + 1)}}

FewBodies ==
    {JObj(NoProps), Body(JStr("short")),
     Body(JStr("Alice will send the report by Friday."))}

ItemTexts ==
    {"{\"task\":\"A\",\"assignee\":null}", "{\"id\":\"x\",\"task\":\"B\"}",
     "{\"id\":\"item-99-1\"}", "\"ab\"", "null"}

RECURSIVE Join(_)
Join(q) ==
    IF Len(q) = 0 THEN ""
    ELSE IF Len(q) = 1 THEN q[1]
    ELSE q[1] \o "," \o Join(Tail(q))

ArrayTexts ==
    {"[" \o Join(q) \o "]" : q \in UNION {[1..n -> ItemTexts] : n \in 0..MaxItems}}

ResultTexts == {"{\"actionItems\":" \o a \o ",\"summary\":\"S\"}" : a \in ArrayTexts}

OddTexts ==
    {"null", "0", "5", "\"hi\"", "true", "[]", "[{\"task\":\"A\"}]", "{}",
     "{\"summary\":\"S\"}", "{\"actionItems\":null,\"summary\":\"S\"}",
     "{\"actionItems\":\"none\"}", "{\"actionItems\":{\"task\":\"A\"}}",
     "{\"actionItems\":0}", "{\"actionItems\":true}",
     "Sure, here's the list: ...", "{\"actionItems\":[{\"task\":\"A\"}", " "}

AllTexts == ResultTexts \cup OddTexts

FewTexts ==
    {"{\"actionItems\":[{\"task\":\"A\"},{\"task\":\"B\"}],\"summary\":\"S\"}",
     "{\"summary\":\"S\"}", "Sure, here's the list: ..."}

\* the object the completion call resolves to
Completion(content) ==
    JObj("choices" :> JArr(<<JObj("message" :> JObj("content" :> content))>>))

EmptyCompletions ==
    {Completion(JStr("")), Completion(JNull), JObj("choices" :> JArr(<<>>)),
     JObj("choices" :> JArr(<<JObj(NoProps)>>)), JObj(NoProps)}

AllCompletions == {Completion(JStr(t)) : t \in AllTexts} \cup EmptyCompletions
FewCompletions == {Completion(JStr(t)) : t \in FewTexts} \cup {Completion(JNull)}
OddCompletions == {Completion(JStr(t)) : t \in OddTexts \cup FewTexts} \cup EmptyCompletions

\* the errors the completion call rejects with
AllFailures ==
    {JsError(JStr(m)) : m \in
        {"Invalid API key", "401 Invalid API key provided", "invalid api key",
         "rate limit exceeded", "429 rate limit reached for model",
         "Rate limit reached for model", "rate-limit",
         "rate limit exceeded for API key gsk_1", "API key over its rate limit",
         "Connection error.", "Request timed out.", ""}}
    \cup {JsError(Undef)}

FewFailures == {JsError(JStr("rate limit exceeded")), JsError(JStr("Connection error."))}

Pending == [state |-> "pending"]
Fulfilled(v) == [state |-> "fulfilled", value |-> v]
Rejected(e) == [state |-> "rejected", reason |-> e]

(***************************************************************************)
(* State.                                                                   *)
(***************************************************************************)
VARIABLES
    pc,         \* per request: "none", "received", "awaiting", "settled", "done"
    reqBody,    \* per request: req.body
    promise,    \* per request: the promise of groq.chat.completions.create
    responses,  \* per request: the responses sent on its res, in order
    calls,      \* per request: the completion calls issued for it
    stamps,     \* per request: the values its Date.now() calls returned
    clock       \* Date.now()

vars == <<pc, reqBody, promise, responses, calls, stamps, clock>>

LastTime == Epoch + MaxTicks

\* faulty variant: one res object kept outside the handler
ResShared(r) == CHOOSE q \in Requests : \A o \in Requests : q <= o
\* the res object the handler invocation for request r holds
Res(r) == r

\* the state after construction, with the requests of R received
InitWith(R, Bodies) ==
    /\ pc = [r \in Requests |-> IF r \in R THEN "received" ELSE "none"]
    /\ reqBody \in [Requests -> Bodies]
    /\ \A r \in Requests \ R : reqBody[r] = JObj(NoProps)
    /\ promise = [r \in Requests |-> Pending]
    /\ responses = [r \in Requests |-> <<>>]
    /\ calls = [r \in Requests |-> 0]
    /\ stamps = [r \in Requests |-> <<>>]
    /\ clock = Epoch

\* the handler from its entry to the await (or to a validation response)
Receive(r) ==
    /\ pc[r] = "received"
    /\ LET sent == ValidationResponse(NotesOf(reqBody[r]))
       IN IF sent # <<>>
          THEN /\ responses' = [responses EXCEPT ![Res(r)] = @ \o sent]
               /\ pc' = [pc EXCEPT ![r] = "done"]
               /\ calls' = calls
          ELSE /\ calls' = [calls EXCEPT ![r] = @ + 1]
               /\ pc' = [pc EXCEPT ![r] = "awaiting"]
               /\ responses' = responses
    /\ UNCHANGED <<reqBody, promise, stamps, clock>>

\* the completion call returns
Resolve(r, Completions) ==
    /\ pc[r] = "awaiting"
    /\ \E c \in Completions : promise' = [promise EXCEPT ![r] = Fulfilled(c)]
    /\ pc' = [pc EXCEPT ![r] = "settled"]
    /\ UNCHANGED <<reqBody, responses, calls, stamps, clock>>

\* the completion call fails
Reject(r, Failures) ==
    /\ pc[r] = "awaiting"
    /\ \E e \in Failures : promise' = [promise EXCEPT ![r] = Rejected(e)]
    /\ pc' = [pc EXCEPT ![r] = "settled"]
    /\ UNCHANGED <<reqBody, responses, calls, stamps, clock>>

\* the values successive Date.now() calls may return from time c on
StampSeqs(c, n) ==
    {ts \in [1..n -> c..LastTime] : \A i \in 1..(n - 1) : ts[i] <= ts[i + 1]}

\* the handler resumes after the await and runs to its end
Continue(r) ==
    /\ pc[r] = "settled"
    /\ \E ts \in StampSeqs(clock, NowCalls(promise[r])) :
          /\ responses' = [responses EXCEPT ![Res(r)] = @ \o Continuation(promise[r], ts)]
          /\ stamps' = [stamps EXCEPT ![r] = ts]
          /\ clock' = IF Len(ts) = 0 THEN clock ELSE ts[Len(ts)]
    /\ pc' = [pc EXCEPT ![r] = "done"]
    /\ UNCHANGED <<reqBody, promise, calls>>

\* time passes
Tick ==
    /\ clock < LastTime
    /\ clock' = clock + 1
    /\ UNCHANGED <<pc, reqBody, promise, responses, calls, stamps>>

NextAll ==
    \/ \E r \in Requests : Receive(r)
    \/ \E r \in Requests : Resolve(r, AllCompletions)
    \/ \E r \in Requests : Reject(r, AllFailures)
    \/ \E r \in Requests : Continue(r)
    \/ Tick

NextFew ==
    \/ \E r \in Requests : Receive(r)
    \/ \E r \in Requests : Resolve(r, FewCompletions)
    \/ \E r \in Requests : Reject(r, FewFailures)
    \/ \E r \in Requests : Continue(r)
    \/ Tick

NextOdd ==
    \/ \E r \in Requests : Receive(r)
    \/ \E r \in Requests : Resolve(r, OddCompletions)
    \/ \E r \in Requests : Reject(r, AllFailures)
    \/ \E r \in Requests : Continue(r)
    \/ Tick

\* the event loop runs every handler that is ready; the provider need not answer
Fairness == \A r \in Requests : WF_vars(Receive(r)) /\ WF_vars(Continue(r))

\* one request, every completion and failure
Init == InitWith({1}, FewBodies)
Spec == Init /\ [][NextAll]_vars
\* one request, the texts of fixed size, every failure, and a fair event loop
FairSpec == Init /\ [][NextOdd]_vars /\ Fairness

\* one request, every request body
InitValidate == InitWith({1}, AllBodies)
SpecValidate == InitValidate /\ [][NextFew]_vars

\* concurrent requests
InitConcurrent == InitWith(Requests, {Body(JStr("short")), Body(JStr("1234567890"))})
SpecConcurrent == InitConcurrent /\ [][NextFew]_vars
FairConcurrent == SpecConcurrent /\ Fairness

(***************************************************************************)
(* Vocabulary of the properties.                                            *)
(***************************************************************************)
Notes(r) == NotesOf(reqBody[r])
Handled(r) == pc[r] \in {"awaiting", "settled", "done"}
Called(r) == pc[r] = "done" /\ calls[r] > 0
\* what JSON.parse returned for r's completion, when the handler got that far
ParsedFor(r) == ParsedResponse(promise[r])
TextParsed(r) == Called(r) /\ ~ParsedFor(r).thrown
ItemArrayParsed(r) ==
    TextParsed(r) /\ ~Nullish(ParsedFor(r).val) /\ HasItemArray(ParsedFor(r).val)
OriginalItems(r) == GetProp(ParsedFor(r).val, "actionItems").v
ReturnedItems(r) == GetProp(responses[r][1].body, "actionItems").v
IsItemArray(x) == x.t = "obj" /\ "actionItems" \in DOMAIN x.v /\ x.v["actionItems"].t = "arr"

(***************************************************************************)
(* C1: every 200 response carries an actionItems field that is an array.    *)
(***************************************************************************)
C1_ActionItemsAlwaysArray ==
    \A r \in Requests : \A i \in 1..Len(responses[r]) :
        responses[r][i].status = 200 => IsItemArray(responses[r][i].body)

(***************************************************************************)
(* C2: when the completion's actionItems is an array, no two returned items *)
(* have the same id, whatever the elements contain.                         *)
(***************************************************************************)
C2_IdsUnique ==
    \A r \in Requests :
        ItemArrayParsed(r) =>
            \A i, j \in 1..Len(ReturnedItems(r)) :
                i # j => GetProp(ReturnedItems(r)[i], "id") # GetProp(ReturnedItems(r)[j], "id")

(***************************************************************************)
(* C3: when the completion's actionItems is an array, the returned array    *)
(* has the same length and order and its element at position i is the       *)
(* original element plus id = item-<T>-<i>, one T for the whole result and  *)
(* never an id the completion supplied.                                     *)
(***************************************************************************)
C3_OriginalPlusOneTimestampId ==
    \A r \in Requests :
        ItemArrayParsed(r) =>
            /\ Len(ReturnedItems(r)) = Len(OriginalItems(r))
            /\ \E T \in Epoch..LastTime :
                  \A i \in 1..Len(OriginalItems(r)) :
                      ReturnedItems(r)[i] =
                          JObj(("id" :> JStr(ItemId(T, i - 1))) @@ Spread(OriginalItems(r)[i]))

(***************************************************************************)
(* C4: the validation outcome is the first failing rule: a non-text value   *)
(* gives 400 INVALID_TYPE; otherwise a string of trimmed length < 10 gives  *)
(* 400 TOO_SHORT; otherwise a string of length > 50,000 gives 400 TOO_LONG; *)
(* otherwise validation passes.                                             *)
(***************************************************************************)
\* the responses validation sent for r: <<>> when the notes passed
ValidationOutcome(r) == IF calls[r] = 0 THEN responses[r] ELSE <<>>

RuleOutcome(n, emptyIsInvalid) ==
    IF n.t # "str" \/ (emptyIsInvalid /\ n.v = "") THEN <<ErrorResponse(400, MsgInvalid)>>
    ELSE IF Len(Trim(n.v)) < MinLength THEN <<ErrorResponse(400, MsgTooShort)>>
    ELSE IF Len(n.v) > MaxLength THEN <<ErrorResponse(400, MsgTooLong)>>
    ELSE <<>>

\* as claimed: the empty string is TOO_SHORT
C4_FirstFailingRule ==
    \A r \in Requests : Handled(r) => ValidationOutcome(r) = RuleOutcome(Notes(r), FALSE)

\* as amended: the empty string is INVALID_TYPE, like a non-text value
C4_FirstFailingRuleEmptyInvalid ==
    \A r \in Requests :
        Handled(r) =>
            /\ ValidationOutcome(r) = RuleOutcome(Notes(r), TRUE)
            /\ (ValidationOutcome(r) = <<>>) = (pc[r] # "done" \/ calls[r] > 0)

C4_Witness ==
    \E r \in Requests :
        /\ pc[r] = "awaiting"
        /\ Notes(r).t = "str"
        /\ Len(Notes(r).v) = MaxLength

(***************************************************************************)
(* C5: a request whose notes pass validation issues exactly one completion  *)
(* call and never a second one; a request whose notes fail validation       *)
(* issues none and is answered 400.                                         *)
(***************************************************************************)
NotesPass(n) ==
    n.t = "str" /\ Len(Trim(n.v)) >= MinLength /\ Len(n.v) <= MaxLength

C5_OneCallIffValid ==
    \A r \in Requests :
        /\ calls[r] <= 1
        /\ Handled(r) =>
              IF NotesPass(Notes(r)) THEN calls[r] = 1
              ELSE /\ calls[r] = 0
                   /\ pc[r] = "done"
                   /\ Len(responses[r]) = 1
                   /\ responses[r][1].status = 400

C5_Witness ==
    \E r \in Requests :
        /\ pc[r] = "done"
        /\ promise[r].state = "rejected"
        /\ calls[r] = 1
        /\ responses[r][1].status \in {429, 500}

(***************************************************************************)
(* C6: a provider failure whose description mentions rate limiting is       *)
(* answered 429 with the retry-later message.                               *)
(***************************************************************************)
RateLimited(r) ==
    pc[r] = "done" /\ promise[r].state = "rejected" /\ Mentions(promise[r].reason, "rate limit")

\* as claimed: whatever else the description contains
C6_RateLimitAlways429 ==
    \A r \in Requests : RateLimited(r) => responses[r] = <<ErrorResponse(429, MsgRateLimit)>>

\* as amended: unless the description also mentions an API key, which gives 500
C6_RateLimit429UnlessApiKey ==
    \A r \in Requests :
        RateLimited(r) =>
            responses[r] = IF Mentions(promise[r].reason, "API key")
                           THEN <<ErrorResponse(500, MsgApiConfig)>>
                           ELSE <<ErrorResponse(429, MsgRateLimit)>>

C6_Witness ==
    \E r \in Requests :
        /\ RateLimited(r)
        /\ ~Mentions(promise[r].reason, "API key")
        /\ responses[r] = <<ErrorResponse(429, MsgRateLimit)>>

(***************************************************************************)
(* C7: a failure after validation is answered by the first that applies:    *)
(* the description mentions an API key, 500 API configuration; it mentions  *)
(* rate limiting, 429; anything else (empty content, unparseable text, any  *)
(* other failure), 500 generic.  The body is one of the three fixed         *)
(* messages and never the error's own text.                                 *)
(***************************************************************************)
ProviderSaid(r, sub) == promise[r].state = "rejected" /\ Mentions(promise[r].reason, sub)
EmptyContent(r) ==
    /\ promise[r].state = "fulfilled"
    /\ ~ResponseText(promise[r].value).thrown
    /\ ~Truthy(ResponseText(promise[r].value).val)
Unparseable(r) ==
    /\ promise[r].state = "fulfilled"
    /\ ~ResponseText(promise[r].value).thrown
    /\ Truthy(ResponseText(promise[r].value).val)
    /\ ~JSONparse(ResponseText(promise[r].value).val.v).ok
FailedAfterValidation(r) ==
    Called(r) /\ (promise[r].state = "rejected" \/ EmptyContent(r) \/ Unparseable(r)
                  \/ responses[r][1].status # 200)

C7_ClassifiedByPriority ==
    \A r \in Requests :
        FailedAfterValidation(r) =>
            /\ responses[r] =
                 IF ProviderSaid(r, "API key") THEN <<ErrorResponse(500, MsgApiConfig)>>
                 ELSE IF ProviderSaid(r, "rate limit") THEN <<ErrorResponse(429, MsgRateLimit)>>
                 ELSE <<ErrorResponse(500, MsgGeneric)>>
            /\ responses[r][1].body.v["error"].v \in {MsgApiConfig, MsgRateLimit, MsgGeneric}

C7_Witness ==
    \E r \in Requests :
        /\ Called(r)
        /\ ProviderSaid(r, "API key")
        /\ ProviderSaid(r, "rate limit")
        /\ responses[r] = <<ErrorResponse(500, MsgApiConfig)>>

(***************************************************************************)
(* C8: a request never has two responses, a finished one has exactly one,   *)
(* with status 200, 400, 429 or 500, and every request whose notes fail     *)
(* validation or whose completion call returned or failed is eventually     *)
(* answered.                                                                *)
(***************************************************************************)
AnsweredOnce(r) == pc[r] = "done" /\ Len(responses[r]) = 1

C8_ExactlyOneResponse ==
    /\ [](\A r \in Requests :
             /\ Len(responses[r]) <= 1
             /\ pc[r] = "done" => Len(responses[r]) = 1
             /\ \A i \in 1..Len(responses[r]) : responses[r][i].status \in {200, 400, 429, 500})
    /\ \A r \in Requests : (pc[r] = "settled") ~> AnsweredOnce(r)
    /\ \A r \in Requests : (pc[r] = "received" /\ ~NotesPass(Notes(r))) ~> AnsweredOnce(r)

C8_Witness ==
    \E r \in Requests :
        /\ Unparseable(r)
        /\ AnsweredOnce(r)
        /\ responses[r][1].status = 500

(***************************************************************************)
(* C9: a completion text that parses to a value without an array            *)
(* actionItems is returned unchanged with status 200.                       *)
(***************************************************************************)
NoItemArray(x) == Nullish(x) \/ ~IsArray(GetProp(x, "actionItems"))

\* as claimed: null included
C9_PassedThroughUnchanged ==
    \A r \in Requests :
        TextParsed(r) /\ NoItemArray(ParsedFor(r).val) =>
            responses[r] = <<Response(200, ParsedFor(r).val)>>

\* as amended: the text null is answered 500 generic
C9_PassedThroughUnlessNull ==
    \A r \in Requests :
        TextParsed(r) /\ NoItemArray(ParsedFor(r).val) =>
            responses[r] = IF ParsedFor(r).val = JNull
                           THEN <<ErrorResponse(500, MsgGeneric)>>
                           ELSE <<Response(200, ParsedFor(r).val)>>

C9_Witness ==
    \E r \in Requests :
        /\ TextParsed(r)
        /\ ParsedFor(r).val = JObj("actionItems" :> JStr("none"))
        /\ responses[r] = <<Response(200, JObj("actionItems" :> JStr("none")))>>

(***************************************************************************)
(* C10: whatever the other requests do, a finished request's response is    *)
(* the one its own notes, its own completion outcome and its own clock      *)
(* readings determine, nothing is sent on an unfinished request's behalf,   *)
(* and a handler that is ready to run can run while other requests wait     *)
(* for their completion call.                                               *)
(***************************************************************************)
OwnResponse(r) ==
    IF calls[r] = 0 THEN ValidationResponse(Notes(r))
    ELSE Continuation(promise[r], stamps[r])

C10_RequestsIndependent ==
    \A r \in Requests :
        /\ pc[r] = "done" => responses[r] = OwnResponse(r)
        /\ pc[r] # "done" => responses[r] = <<>>
        /\ pc[r] = "received" => ENABLED Receive(r)
        /\ pc[r] = "settled" => ENABLED Continue(r)

C10_Witness ==
    \E r, q \in Requests :
        /\ pc[r] = "awaiting"
        /\ pc[q] = "done"
        /\ calls[q] = 1
        /\ responses[q] = OwnResponse(q)
        /\ responses[q][1].status = 200

====
